---- MODULE Spec2Model ----
(***************************************************************************)
(* mx2md: incremental synchronisation of a Memorix backup archive into a   *)
(* folder of Markdown files (src/mx2md.py).                                *)
(*                                                                         *)
(* Conventions of the model                                                *)
(*  - a directory is the sequence of its components below dest_path, so    *)
(*    <<>> is dest_path itself and <<"Trash","work">> is                   *)
(*    dest_path/Trash/work;                                                *)
(*  - a file name is a sequence of string tokens (the characters of the    *)
(*    title are single tokens), so that "a" with collision suffix 1 and    *)
(*    the title "a 1" give the same name, as they do on disk;              *)
(*  - a file path is [dir, name]; the file system is case sensitive;       *)
(*  - a time in seconds is <<whole seconds, thousandths>>.                 *)
(***************************************************************************)
EXTENDS Integers, Sequences, FiniteSets, TLC

\* -------------------------------------------------------------------------
\* Bounds of the model
\* -------------------------------------------------------------------------

\* Largest number of notes in an archive of the synchronisation runs.
MaxNotes == 2

\* Number of runs of the program in one behaviour.
MaxRuns == 2

\* Largest number of notes in an archive of the path allocation runs.
AllocNotes == 3

\* -------------------------------------------------------------------------
\* Strings, times, bits
\* -------------------------------------------------------------------------

\* str.lower() on the tokens the model uses.
LowerTok(t) ==
    CASE t = "A" -> "a"
      [] t = "B" -> "b"
      [] t = "Trash" -> "trash"
      [] t = "Archive" -> "archive"
      [] OTHER -> t

LowerSeq(s) == [i \in 1..Len(s) |-> LowerTok(s[i])]

\* full_path.lower()
Lower(p) == [dir |-> LowerSeq(p.dir), name |-> LowerSeq(p.name)]

\* float(millis) / 1000, kept exact as <<whole seconds, thousandths>>.
Seconds(millis) == <<millis \div 1000, millis % 1000>>

\* a < b on such times.
TimeLess(a, b) == a[1] < b[1] \/ (a[1] = b[1] /\ a[2] < b[2])

RECURSIVE Pow2(_)
Pow2(n) == IF n = 0 THEN 1 ELSE 2 * Pow2(n - 1)

test_bit(int_type, offset) == ((int_type \div Pow2(offset)) % 2) # 0

\* str.strip() on a token sequence; whitespace is the token " ".
RECURSIVE LStrip(_)
LStrip(s) == IF s # <<>> /\ Head(s) = " " THEN LStrip(Tail(s)) ELSE s

RECURSIVE RStrip(_)
RStrip(s) ==
    IF s # <<>> /\ s[Len(s)] = " " THEN RStrip(SubSeq(s, 1, Len(s) - 1)) ELSE s

Strip(s) == RStrip(LStrip(s))

\* s[:n]
Take(s, n) == SubSeq(s, 1, IF Len(s) < n THEN Len(s) ELSE n)

\* -------------------------------------------------------------------------
\* Options (module-level globals set from sys.argv)
\* -------------------------------------------------------------------------

ParseOptions(args) ==
    [ safe_mode        |-> "--safe-mode" \in args,
      debug_mode       |-> "--verbose" \in args,
      ignore_trash     |-> "--ignore-trash" \in args,
      ignore_archive   |-> "--ignore-archive" \in args,
      ignore_empty_notes |-> "--ignore-empty-notes" \in args,
      separate_trash   |-> "--separate-trash" \in args,
      separate_archive |-> "--separate-archive" \in args ]

\* -------------------------------------------------------------------------
\* class Note
\* -------------------------------------------------------------------------

\* The category table of the archive (prefs.pref_categories).
Categories == << [num |-> 1, title |-> "work"], [num |-> 2, title |-> "home"] >>

\* md5 of the text of the whole archive entry: every field of the entry
\* feeds it, and two entries that differ in any field get different hashes.
generate_hash(entry) ==
    << entry.id, entry.order, entry.title, entry.text, entry.flags,
       entry.createdMillis, entry.lastModifiedMillis, entry.colorNum >>

determine_title(entry) ==
    IF Strip(entry.title) # <<>> THEN Strip(entry.title)
    ELSE <<"Note", " ", ToString(entry.order)>>

determine_ctime(entry) == Seconds(entry.createdMillis)

\* Mutant: the creation time is taken for the modification time.
determine_mtime_FromCreated(entry) == Seconds(entry.createdMillis)

determine_mtime(entry) == Seconds(entry.lastModifiedMillis)

determine_category(entry) ==
    LET hits == {i \in 1..Len(Categories) : Categories[i].num = entry.colorNum}
        first == CHOOSE i \in hits : \A j \in hits : i <= j
    IN Categories[first].title

\* A note of one plain section and no attachments renders as its text.
determine_content(entry) == entry.text

is_trashed(entry) == test_bit(entry.flags, 1)

is_archived(entry) == test_bit(entry.flags, 12)

is_empty(entry) == determine_content(entry) = ""

\* Mutant: the archive test comes before the trash test.
determine_save_dir_ArchiveFirst(entry, o) ==
    LET path == IF is_archived(entry) /\ o.separate_archive /\ ~o.ignore_archive
                  THEN <<"Archive">>
                ELSE IF is_trashed(entry) /\ o.separate_trash /\ ~o.ignore_trash
                  THEN <<"Trash">>
                ELSE <<>>
    IN Append(path, determine_category(entry))

determine_save_dir(entry, o) ==
    LET path == IF is_trashed(entry) /\ o.separate_trash /\ ~o.ignore_trash
                  THEN <<"Trash">>
                ELSE IF is_archived(entry) /\ o.separate_archive /\ ~o.ignore_archive
                  THEN <<"Archive">>
                ELSE <<>>
    IN Append(path, determine_category(entry))

\* Characters kept by re.sub(r'[^\w_. -]', '', title)
FileNameChars == {"a", "b", "A", "B", "1", "2", "_", ".", " ", "-"}

Sanitize(title) == SelectSeq(title, LAMBDA c : c \in FileNameChars)

\* epoch_to_readable(ctime, "%Y-%m-%d"): the day of the creation time.
epoch_to_readable(t) == ToString(t[1] \div 86400)

determine_file_name(entry) ==
    LET prefix == epoch_to_readable(determine_ctime(entry))
        clean  == Strip(Sanitize(determine_title(entry)))
        middle == IF clean = <<>> THEN <<"Note", " ", ToString(entry.order)>>
                  ELSE clean
    IN Strip(<<prefix, " ">> \o Take(middle, 50))

\* What write_to_disk leaves at the path: the content, and the times that
\* os.utime(path, (mtime, ctime)) sets: the pair is (atime, mtime).
set_original_timestamp(content, mtime, ctime) ==
    [content |-> content, atime |-> mtime, mtime |-> ctime]

write_to_disk(entry) ==
    set_original_timestamp(determine_content(entry), determine_mtime(entry),
                           determine_ctime(entry))

\* -------------------------------------------------------------------------
\* State
\* -------------------------------------------------------------------------

VARIABLES
    files,          \* file system: path -> [content, atime, mtime], *.md files
    dirs,           \* file system: the directories that exist
    db_file,        \* dest_path/sync_db.json: [exists, notes, whole]
    pc,             \* position of the program
    runs,           \* number of runs started
    argv,           \* command line flags of the current run
    mxdb_notes,     \* mxdb.notes: the entries of the archive of this run
    current_notes,  \* entries left after filtering
    sync_db,        \* sync_db.notes, in memory
    filepaths,      \* lowercased paths allocated so far in this run
    pos,            \* notes processed so far in this run
    counters,       \* the counters of the summary
    steps,          \* history: what the notes loop did for each note
    removed,        \* history: files and folders the sweep deleted
    before,         \* history: state at the start of this run
    last            \* history: the previous completed run

vars == << files, dirs, db_file, pc, runs, argv, mxdb_notes, current_notes,
           sync_db, filepaths, pos, counters, steps, removed, before, last >>

options == ParseOptions(argv)

Root == <<>>

LogPath == [dir |-> Root, name |-> <<"export_log", ".md">>]

LogFile == [content |-> "log", atime |-> <<0, 0>>, mtime |-> <<0, 0>>]

ZeroCounters ==
    [ new_notes |-> 0, updated_notes |-> 0, unchanged_notes |-> 0,
      skipped_empty_notes |-> 0, skipped_trashed_notes |-> 0,
      skipped_archived_notes |-> 0, file_deletions |-> 0,
      folder_deletions |-> 0, entry_deletions |-> 0, total_notes |-> 0 ]

\* An empty destination: no file, and no sync_db.json.
NoFiles == [p \in {} |-> LogFile]

\* whole: the file holds a complete JSON document (json.load can parse it).
NoDb == [exists |-> FALSE, notes |-> <<>>, whole |-> TRUE]

\* Positions of the sys.exit() calls of the command line checks.
ConfigErrors == {"help", "no_input_output", "no_backup", "input_not_found"}

\* Positions at which no run is in progress.
Stopped ==
    {"idle", "done", "crashed", "exited", "load_failed", "interrupted"}
        \union ConfigErrors

\* Exit status of the process: sys.exit() is always called with no argument,
\* which is status 0, as is running off the end of the script; an uncaught
\* exception or a kill gives a nonzero status.
ExitStatus == IF pc \in {"crashed", "load_failed", "interrupted"} THEN 1 ELSE 0

NoRun == [done |-> FALSE, argv |-> {}, notes |-> <<>>, db |-> <<>>, steps |-> <<>>]

Init ==
    /\ files = NoFiles
    /\ dirs = {}
    /\ db_file = NoDb
    /\ pc = "idle"
    /\ runs = 0
    /\ argv = {}
    /\ mxdb_notes = <<>>
    /\ current_notes = <<>>
    /\ sync_db = <<>>
    /\ filepaths = <<>>
    /\ pos = 0
    /\ counters = ZeroCounters
    /\ steps = <<>>
    /\ removed = [files |-> {}, dirs |-> {}]
    /\ before = [files |-> NoFiles, dirs |-> {}, db |-> NoDb]
    /\ last = NoRun

\* -------------------------------------------------------------------------
\* File system
\* -------------------------------------------------------------------------

\* open(path, "w") with a write: the file is created or replaced.
Put(fs, p, rec) == [q \in (DOMAIN fs) \cup {p} |-> IF q = p THEN rec ELSE fs[q]]

\* os.remove(path)
Del(fs, p) == [q \in (DOMAIN fs) \ {p} |-> fs[q]]

\* os.path.dirname of a directory
Parent(d) == SubSeq(d, 1, Len(d) - 1)

\* os.mkdir fails (and try_mkdir exits) when the parent directory is missing.
MkdirFails(ds, d) == d \notin ds /\ d # Root /\ Parent(d) \notin ds

try_mkdir(ds, d) == IF d \in ds THEN ds ELSE ds \cup {d}

\* os.listdir(d) is empty: no file, no sub-directory, and no sync_db.json.
\* Mutant: only the files of the folder are looked at.
DirIsEmpty_FilesOnly(fs, ds, db, d) ==
    \A p \in DOMAIN fs : p.dir # d

\* not os.listdir(d)
DirIsEmpty(fs, ds, db, d) ==
    /\ \A p \in DOMAIN fs : p.dir # d
    /\ \A x \in ds : ~(x # Root /\ Parent(x) = d)
    /\ ~(d = Root /\ db.exists)

\* log(): a line is appended to dest_path/export_log.md when the call is
\* essential or the run is verbose; open(path, "a") creates the file.
Logs(o, essential) == o.debug_mode \/ essential

log(fs, o, essential) ==
    IF Logs(o, essential) THEN Put(fs, LogPath, LogFile) ELSE fs

\* open() of a file of dest_path raises when dest_path is gone.
LogFails(ds, o, essential) == Logs(o, essential) /\ Root \notin ds

\* -------------------------------------------------------------------------
\* Start of a run: options, destination folder, archive, filtering, ledger
\* -------------------------------------------------------------------------

Max(S) == CHOOSE x \in S : \A y \in S : y <= x

\* list.pop(index)
Pop(seq, i) == SubSeq(seq, 1, i - 1) \o SubSeq(seq, i + 1, Len(seq))

Min(S) == CHOOSE x \in S : \A y \in S : x <= y

\* Mutant: the positions are popped first to last, so every pop shifts the
\* entries that later positions name.
RECURSIVE PopAscending(_, _)
PopAscending(seq, indexes) ==
    IF indexes = {} THEN seq
    ELSE PopAscending(IF Min(indexes) <= Len(seq) THEN Pop(seq, Min(indexes)) ELSE seq,
                      indexes \ {Min(indexes)})

\* for index in sorted(indexes, reverse=True): list.pop(index)
RECURSIVE PopDescending(_, _)
PopDescending(seq, indexes) ==
    IF indexes = {} THEN seq
    ELSE PopDescending(Pop(seq, Max(indexes)), indexes \ {Max(indexes)})

\* Which branch of the filtering loop takes the note.
SkipReason(entry, o) ==
    IF is_empty(entry) /\ o.ignore_empty_notes THEN "empty"
    ELSE IF is_trashed(entry) /\ o.ignore_trash THEN "trashed"
    ELSE IF is_archived(entry) /\ o.ignore_archive THEN "archived"
    ELSE "kept"

notes_to_ignore(notes, o) ==
    {i \in 1..Len(notes) : SkipReason(notes[i], o) # "kept"}

\* Mutant: three separate tests instead of one if / elif chain.
Skipped_EveryMatch(notes, o, reason) ==
    Cardinality({i \in 1..Len(notes) :
        \/ reason = "empty" /\ is_empty(notes[i]) /\ o.ignore_empty_notes
        \/ reason = "trashed" /\ is_trashed(notes[i]) /\ o.ignore_trash
        \/ reason = "archived" /\ is_archived(notes[i]) /\ o.ignore_archive})

Skipped(notes, o, reason) ==
    Cardinality({i \in 1..Len(notes) : SkipReason(notes[i], o) = reason})

\* Mutant: the persisted ledger is not read back.
ReadDb_AlwaysEmpty(db) == <<>>

\* SyncDB.read
ReadDb(db) == IF db.exists THEN db.notes ELSE <<>>

\* Mutant: a ledger file that cannot be parsed is taken for an empty ledger.
DbUnreadable_Never(db) == FALSE

\* json.load raises on a sync_db.json that is not a complete document.
DbUnreadable(db) == db.exists /\ ~db.whole

Begin(args, raw_notes) ==
    LET o == ParseOptions(args) IN
    /\ pc \in Stopped
    /\ runs' = runs + 1
    /\ argv' = args
    /\ dirs' = try_mkdir(dirs, Root)
    /\ files' = log(files, o, FALSE)
    /\ mxdb_notes' = raw_notes
    /\ current_notes' = PopDescending(raw_notes, notes_to_ignore(raw_notes, o))
    /\ counters' = [ZeroCounters EXCEPT
            !.skipped_empty_notes = Skipped(raw_notes, o, "empty"),
            !.skipped_trashed_notes = Skipped(raw_notes, o, "trashed"),
            !.skipped_archived_notes = Skipped(raw_notes, o, "archived")]
    /\ sync_db' = IF DbUnreadable(db_file) THEN <<>> ELSE ReadDb(db_file)
    /\ filepaths' = <<>>
    /\ pos' = 0
    /\ steps' = <<>>
    /\ removed' = [files |-> {}, dirs |-> {}]
    /\ before' = [files |-> files, dirs |-> dirs, db |-> db_file]
    /\ last' = [done |-> pc = "done", argv |-> argv, notes |-> mxdb_notes,
                db |-> db_file.notes, steps |-> steps]
    /\ pc' = IF DbUnreadable(db_file) THEN "load_failed"
             ELSE IF Len(current_notes') = 0 THEN "sweep" ELSE "notes"
    /\ UNCHANGED db_file

\* -------------------------------------------------------------------------
\* The notes loop: one note
\* -------------------------------------------------------------------------

InSeq(x, seq) == \E i \in 1..Len(seq) : seq[i] = x

\* os.path.join(save_dir, f"{file_name}.md"), or f"{file_name} {k}.md"
FullPath(save_dir, file_name, k) ==
    [dir |-> save_dir,
     name |-> file_name \o (IF k = 0 THEN <<".md">> ELSE <<" ", ToString(k), ".md">>)]

\* Mutant: the collision test compares the path as written, not lowercased.
Collides_CaseSensitive(full_path, fps) == InSeq(full_path, fps)

\* full_path.lower() in filepaths
Collides(full_path, fps) == InSeq(Lower(full_path), fps)

\* The collision loop: the path it ends with.
RECURSIVE AllocatePath(_, _, _, _, _)
AllocatePath(save_dir, file_name, full_path, name_counter, fps) ==
    IF Collides(full_path, fps)
    THEN AllocatePath(save_dir, file_name,
                      FullPath(save_dir, file_name, name_counter),
                      name_counter + 1, fps)
    ELSE full_path

\* Position of the first ledger entry with this id, 0 when there is none.
\* Mutant: the scan of the ledger starts at its second entry.
FindEntry_SkipsFirst(db, hash) ==
    LET hits == {i \in 2..Len(db) : db[i].id = hash}
    IN IF hits = {} THEN 0 ELSE CHOOSE i \in hits : \A j \in hits : i <= j

\* for entry in sync_db.notes: if entry["id"] == note.hash: ... break
FindEntry(db, hash) ==
    LET hits == {i \in 1..Len(db) : db[i].id = hash}
    IN IF hits = {} THEN 0 ELSE CHOOSE i \in hits : \A j \in hits : i <= j

\* Mutant: equal timestamps count as changed.
NeedsUpdate_LessOrEqual(entry_mtime, note_mtime, file_exists) ==
    ~TimeLess(note_mtime, entry_mtime) \/ ~file_exists

\* The test that decides whether a note found in the ledger is rewritten.
NeedsUpdate(entry_mtime, note_mtime, file_exists) ==
    TimeLess(entry_mtime, note_mtime) \/ ~file_exists

\* SyncDB.add_note
add_note(db, note_id, path, mtime) ==
    Append(db, [id |-> note_id, path |-> path, mtime |-> mtime])

ProcessNote ==
    /\ pc = "notes"
    /\ pos < Len(current_notes)
    /\ LET o == options
           note == current_notes[pos + 1]
           save_dir == determine_save_dir(note, o)
           state_dir == IF (is_trashed(note) /\ o.separate_trash)
                           \/ (is_archived(note) /\ o.separate_archive)
                        THEN {Parent(save_dir)} ELSE {}
           d1 == IF state_dir = {} THEN dirs ELSE try_mkdir(dirs, Parent(save_dir))
           d2 == try_mkdir(d1, save_dir)
           mkdir_fails == (state_dir # {} /\ MkdirFails(dirs, Parent(save_dir)))
                          \/ MkdirFails(d1, save_dir)
           file_name == determine_file_name(note)
           full_path == AllocatePath(save_dir, file_name,
                                     FullPath(save_dir, file_name, 0), 1, filepaths)
           hash == generate_hash(note)
           mtime == determine_mtime(note)
           at == FindEntry(sync_db, hash)
           in_db == at # 0
           exists == full_path \in DOMAIN files
           write == IF in_db THEN NeedsUpdate(sync_db[at].mtime, mtime, exists)
                    ELSE TRUE
           logged == log(files, o, FALSE)
       IN IF mkdir_fails
          THEN /\ pc' = "exited"
               /\ files' = logged
               /\ dirs' = d1
               /\ UNCHANGED << sync_db, filepaths, pos, counters, steps >>
          ELSE /\ dirs' = d2
               /\ filepaths' = Append(filepaths, Lower(full_path))
               /\ files' = IF write THEN Put(logged, full_path, write_to_disk(note))
                           ELSE logged
               /\ sync_db' = IF in_db
                             THEN IF write THEN [sync_db EXCEPT ![at].mtime = mtime]
                                  ELSE sync_db
                             ELSE add_note(sync_db, hash, full_path, mtime)
               /\ counters' =
                    IF ~in_db THEN [counters EXCEPT !.new_notes = @ + 1]
                    ELSE IF write THEN [counters EXCEPT !.updated_notes = @ + 1]
                    ELSE [counters EXCEPT !.unchanged_notes = @ + 1]
               /\ steps' = Append(steps,
                    [key |-> note.id, hash |-> hash, mtime |-> mtime,
                     path |-> full_path, in_db |-> in_db,
                     entry_mtime |-> IF in_db THEN sync_db[at].mtime ELSE mtime,
                     existed |-> exists, wrote |-> write])
               /\ pos' = pos + 1
               /\ pc' = IF pos + 1 = Len(current_notes) THEN "sweep" ELSE "notes"
    /\ UNCHANGED << db_file, runs, argv, mxdb_notes, current_notes, removed,
                    before, last >>

\* -------------------------------------------------------------------------
\* The deletion sweep
\* -------------------------------------------------------------------------

IsMd(p) == p.name[Len(p.name)] = ".md"

\* os.walk(path, topdown=True): the files of a directory come before the
\* files of the directories below it.
RECURSIVE WalkOrder(_)
WalkOrder(S) ==
    IF S = {} THEN <<>>
    ELSE LET p == CHOOSE x \in S : \A y \in S : Len(x.dir) <= Len(y.dir)
         IN <<p>> \o WalkOrder(S \ {p})

list_files_recursively(fs) == WalkOrder({p \in DOMAIN fs : IsMd(p)})

\* Mutant: the sweep deletes orphans in safe mode too.
ShouldDelete_IgnoresSafeMode(file_in_db, o) == ~file_in_db

\* if not file_in_db and not safe_mode
ShouldDelete(file_in_db, o) == ~file_in_db /\ ~o.safe_mode

\* The loop over destination_folder; st is the state it carries.
RECURSIVE SweepLoop(_, _, _, _, _)
SweepLoop(list, st, fps, o, db) ==
    IF list = <<>> \/ st.crashed THEN st
    ELSE LET md_file == Head(list)
             file_in_db == \E i \in 1..Len(fps) : Lower(md_file) = fps[i]
             logged == log(st.files, o, FALSE)
             deleted == Del(logged, md_file)
             folder == md_file.dir
             empty == DirIsEmpty(deleted, st.dirs, db, folder)
         IN IF ~ShouldDelete(file_in_db, o)
              THEN SweepLoop(Tail(list), st, fps, o, db)
            ELSE IF LogFails(st.dirs, o, FALSE) \/ md_file \notin DOMAIN logged
              THEN [st EXCEPT !.crashed = TRUE]
            ELSE SweepLoop(Tail(list),
                   [ files |-> deleted,
                     dirs |-> IF empty THEN st.dirs \ {folder} ELSE st.dirs,
                     crashed |-> FALSE,
                     file_deletions |-> st.file_deletions + 1,
                     folder_deletions |-> st.folder_deletions + (IF empty THEN 1 ELSE 0),
                     rfiles |-> st.rfiles \cup {md_file},
                     rdirs |-> IF empty THEN st.rdirs \cup {folder} ELSE st.rdirs ],
                   fps, o, db)

DeletionSweep ==
    /\ pc = "sweep"
    /\ LET o == options
           destination_folder == list_files_recursively(files)
           st == SweepLoop(destination_folder,
                   [ files |-> log(files, o, FALSE), dirs |-> dirs, crashed |-> FALSE,
                     file_deletions |-> 0, folder_deletions |-> 0,
                     rfiles |-> {}, rdirs |-> {} ],
                   filepaths, o, db_file)
       IN /\ files' = st.files
          /\ dirs' = st.dirs
          /\ counters' = [counters EXCEPT !.file_deletions = st.file_deletions,
                                          !.folder_deletions = st.folder_deletions]
          /\ removed' = [files |-> st.rfiles, dirs |-> st.rdirs]
          /\ pc' = IF st.crashed THEN "crashed" ELSE "cleanup"
    /\ UNCHANGED << db_file, runs, argv, mxdb_notes, current_notes, sync_db,
                    filepaths, pos, steps, before, last >>

\* -------------------------------------------------------------------------
\* Database cleanup, database write, summary
\* -------------------------------------------------------------------------

\* Positions of the ledger entries whose id is the hash of no current note.
invalid_indexes(db, notes) ==
    {i \in 1..Len(db) :
        \A n \in 1..Len(notes) : db[i].id # generate_hash(notes[n])}

DatabaseCleanup ==
    /\ pc = "cleanup"
    /\ LET o == options
           invalid == invalid_indexes(sync_db, current_notes)
       IN IF LogFails(dirs, o, FALSE)
          THEN /\ pc' = "crashed"
               /\ UNCHANGED << files, sync_db, counters >>
          ELSE /\ files' = log(files, o, FALSE)
               /\ sync_db' = PopDescending(sync_db, invalid)
               /\ counters' = [counters EXCEPT !.entry_deletions = Cardinality(invalid)]
               /\ pc' = "write"
    /\ UNCHANGED << dirs, db_file, runs, argv, mxdb_notes, current_notes,
                    filepaths, pos, steps, removed, before, last >>

\* SyncDB.write: open(self.path, "w") and one write of the whole document.
WriteDatabase ==
    /\ pc = "write"
    /\ IF Root \notin dirs
       THEN /\ pc' = "crashed"
            /\ UNCHANGED << files, db_file >>
       ELSE /\ files' = log(files, options, FALSE)
            /\ db_file' = [exists |-> TRUE, notes |-> sync_db, whole |-> TRUE]
            /\ pc' = "summary"
    /\ UNCHANGED << dirs, runs, argv, mxdb_notes, current_notes, sync_db,
                    filepaths, pos, counters, steps, removed, before, last >>

\* SyncDB.write, first half: open(self.path, "w") creates or truncates the
\* file; nothing of the new document is in it yet.
OpenDatabase ==
    /\ pc = "write"
    /\ IF Root \notin dirs
       THEN /\ pc' = "crashed"
            /\ UNCHANGED << files, db_file >>
       ELSE /\ files' = log(files, options, FALSE)
            /\ db_file' = [exists |-> TRUE, notes |-> <<>>, whole |-> FALSE]
            /\ pc' = "writing"
    /\ UNCHANGED << dirs, runs, argv, mxdb_notes, current_notes, sync_db,
                    filepaths, pos, counters, steps, removed, before, last >>

\* SyncDB.write, second half: the document is written and the file closed.
FlushDatabase ==
    /\ pc = "writing"
    /\ db_file' = [exists |-> TRUE, notes |-> sync_db, whole |-> TRUE]
    /\ pc' = "summary"
    /\ UNCHANGED << files, dirs, runs, argv, mxdb_notes, current_notes, sync_db,
                    filepaths, pos, counters, steps, removed, before, last >>

\* The process is killed (signal, power loss) between two steps of a run.
Interrupt ==
    /\ pc \in {"notes", "sweep", "cleanup", "write", "writing", "summary"}
    /\ pc' = "interrupted"
    /\ UNCHANGED << files, dirs, db_file, runs, argv, mxdb_notes, current_notes,
                    sync_db, filepaths, pos, counters, steps, removed, before, last >>

total_notes(c, o) ==
    c.new_notes + c.updated_notes + c.unchanged_notes
    + (IF o.ignore_empty_notes THEN c.skipped_empty_notes ELSE 0)
    + (IF o.ignore_trash THEN c.skipped_trashed_notes ELSE 0)
    + (IF o.ignore_archive THEN c.skipped_archived_notes ELSE 0)

\* The summary; total_notes / mxdb.notes_count raises on an archive of no
\* notes, after the first lines of the summary are logged.
Summary ==
    /\ pc = "summary"
    /\ files' = log(files, options, TRUE)
    /\ counters' = [counters EXCEPT !.total_notes = total_notes(counters, options)]
    /\ pc' = IF Len(mxdb_notes) = 0 THEN "crashed" ELSE "done"
    /\ UNCHANGED << dirs, db_file, runs, argv, mxdb_notes, current_notes, sync_db,
                    filepaths, pos, steps, removed, before, last >>

\* -------------------------------------------------------------------------
\* Specification of the synchronisation runs
\* -------------------------------------------------------------------------

\* Archives of at most n entries of E. The archive key of an entry is unique,
\* and the model draws the archives that list their entries by ascending key.
RECURSIVE ArchivesOfLen(_, _)
ArchivesOfLen(E, k) ==
    IF k = 0 THEN {<<>>}
    ELSE UNION { { Append(a, e) : e \in {x \in E : a = <<>> \/ a[Len(a)].id < x.id} }
                 : a \in ArchivesOfLen(E, k - 1) }

Archives(E, n) == UNION { ArchivesOfLen(E, k) : k \in 0..n }

SyncEntries ==
    [ id : 1..MaxNotes, order : {0}, title : {<<"a">>, <<"b">>}, text : {"x", "y"},
      flags : {0}, createdMillis : {500}, lastModifiedMillis : {1000, 2500},
      colorNum : {1} ]

SyncArchives == Archives(SyncEntries, MaxNotes)

StartSync ==
    /\ runs < MaxRuns
    /\ \E args \in SUBSET {"--safe-mode"}, a \in SyncArchives : Begin(args, a)

Next ==
    \/ StartSync
    \/ ProcessNote
    \/ DeletionSweep
    \/ DatabaseCleanup
    \/ WriteDatabase
    \/ Summary

Spec == Init /\ [][Next]_vars

\* -------------------------------------------------------------------------
\* Specification of path allocation: one run on an empty destination, over
\* archives whose titles collide by case and by a trailing collision suffix
\* -------------------------------------------------------------------------

AllocEntries ==
    [ id : 1..AllocNotes, order : {0},
      title : {<<"a">>, <<"A">>, <<"a", " ", "1">>, <<"b">>}, text : {"x"},
      flags : {0, 2}, createdMillis : {500}, lastModifiedMillis : {1000},
      colorNum : {1} ]

AllocArchives == Archives(AllocEntries, AllocNotes)

StartAlloc ==
    /\ runs = 0
    /\ \E args \in SUBSET {"--separate-trash"}, a \in AllocArchives : Begin(args, a)

NextAlloc ==
    \/ StartAlloc
    \/ ProcessNote
    \/ DeletionSweep
    \/ DatabaseCleanup
    \/ WriteDatabase
    \/ Summary

SpecAlloc == Init /\ [][NextAlloc]_vars

\* -------------------------------------------------------------------------
\* Specification of the command line: sys.argv[1:] is any sequence of a few
\* tokens, checked as the program checks it before it starts a run
\* -------------------------------------------------------------------------

\* Largest number of command line arguments after the program name.
MaxArgs == 5

Tokens ==
    {"-i", "-o", "--help", "--safe-mode", "in.mxbk", "backups", "photos", "out"}

CommandLines == UNION {[1..n -> Tokens] : n \in 0..MaxArgs}

Range(f) == {f[i] : i \in DOMAIN f}

\* list.index
IndexOf(cmd, tok) == CHOOSE i \in 1..Len(cmd) : cmd[i] = tok /\ \A j \in 1..(i - 1) : cmd[j] # tok

\* What is at a path of the input side: "in.mxbk" is a backup file, "backups"
\* a folder holding one, "photos" and "out" folders holding none; nothing
\* else exists.
InputKind(path) ==
    CASE path = "in.mxbk" -> "backup"
      [] path = "backups" -> "folder_with_backup"
      [] path \in {"photos", "out"} -> "folder"
      [] OTHER -> "missing"

\* The checks of the command line, in the program's order; the result is the
\* sys.exit() reached, "crashed" for the IndexError of an option name in last
\* place, or "run".
CheckArguments(cmd) ==
    IF Len(cmd) + 1 < 5 \/ "--help" \in Range(cmd) THEN "help"
    ELSE IF ~("-i" \in Range(cmd) /\ "-o" \in Range(cmd)) THEN "no_input_output"
    ELSE IF IndexOf(cmd, "-i") = Len(cmd) \/ IndexOf(cmd, "-o") = Len(cmd) THEN "crashed"
    ELSE LET mxdb_folder == cmd[IndexOf(cmd, "-i") + 1] IN
         CASE InputKind(mxdb_folder) = "missing" -> "input_not_found"
           [] InputKind(mxdb_folder) = "folder" -> "no_backup"
           [] OTHER -> "run"

ConfigEntries ==
    [ id : {1}, order : {0}, title : {<<"a">>}, text : {"x"}, flags : {0},
      createdMillis : {500}, lastModifiedMillis : {1000}, colorNum : {1} ]

ConfigArchives == Archives(ConfigEntries, Cardinality(ConfigEntries))

\* The program is started with a command line: it stops at a check, or runs.
StartConfig ==
    /\ runs = 0
    /\ \E cmd \in CommandLines :
          IF CheckArguments(cmd) = "run"
          THEN \E a \in ConfigArchives : Begin(Range(cmd), a)
          ELSE /\ pc \in Stopped
               /\ pc' = CheckArguments(cmd)
               /\ runs' = runs + 1
               /\ before' = [files |-> files, dirs |-> dirs, db |-> db_file]
               /\ UNCHANGED << files, dirs, db_file, argv, mxdb_notes, current_notes,
                               sync_db, filepaths, pos, counters, steps, removed, last >>

NextConfig ==
    \/ StartConfig
    \/ ProcessNote
    \/ DeletionSweep
    \/ DatabaseCleanup
    \/ WriteDatabase
    \/ Summary

SpecConfig == Init /\ [][NextConfig]_vars

\* -------------------------------------------------------------------------
\* Specifications of the options: one run on an empty destination, over
\* notes that are trashed, archived or empty, under every set of options
\* -------------------------------------------------------------------------

\* Largest number of notes in an archive of the option specifications.
OptionNotes == 2

FilterEntries ==
    [ id : 1..OptionNotes, order : {0}, title : {<<"a">>}, text : {"", "x"},
      flags : {0, 2, 4096, 4098},
      createdMillis : {500}, lastModifiedMillis : {1000}, colorNum : {1} ]

FilterArchives == Archives(FilterEntries, OptionNotes)

\* The options print_help documents for leaving notes out.
HelpOptions == {"--skip-trash", "--skip-archive", "--skip-empty"}

StartHelp ==
    /\ runs = 0
    /\ \E args \in SUBSET HelpOptions, a \in FilterArchives : Begin(args, a)

NextHelp ==
    \/ StartHelp
    \/ ProcessNote
    \/ DeletionSweep
    \/ DatabaseCleanup
    \/ WriteDatabase
    \/ Summary

SpecHelp == Init /\ [][NextHelp]_vars

\* The options the program reads for leaving notes out.
IgnoreOptions == {"--ignore-trash", "--ignore-archive", "--ignore-empty-notes"}

StartFilter ==
    /\ runs = 0
    /\ \E args \in SUBSET IgnoreOptions, a \in FilterArchives : Begin(args, a)

NextFilter ==
    \/ StartFilter
    \/ ProcessNote
    \/ DeletionSweep
    \/ DatabaseCleanup
    \/ WriteDatabase
    \/ Summary

SpecFilter == Init /\ [][NextFilter]_vars

RouteEntries ==
    [ id : 1..OptionNotes, order : {0}, title : {<<"a">>}, text : {"x"},
      flags : {0, 2, 4096, 4098},
      createdMillis : {500}, lastModifiedMillis : {1000}, colorNum : {1, 2} ]

RouteArchives == Archives(RouteEntries, OptionNotes)

\* The four options determine_save_dir reads.
RouteOptions ==
    {"--separate-trash", "--separate-archive", "--ignore-trash", "--ignore-archive"}

StartRoute ==
    /\ runs = 0
    /\ \E args \in SUBSET RouteOptions, a \in RouteArchives : Begin(args, a)

NextRoute ==
    \/ StartRoute
    \/ ProcessNote
    \/ DeletionSweep
    \/ DatabaseCleanup
    \/ WriteDatabase
    \/ Summary

SpecRoute == Init /\ [][NextRoute]_vars

\* -------------------------------------------------------------------------
\* Specification of runs whose options change: trashed notes are moved to
\* the Trash folder or left out in one run and not in the other
\* -------------------------------------------------------------------------

TrashEntries ==
    [ id : 1..MaxNotes, order : {0}, title : {<<"a">>}, text : {"x"},
      flags : {0, 2},
      createdMillis : {500}, lastModifiedMillis : {1000}, colorNum : {1} ]

TrashArchives == Archives(TrashEntries, MaxNotes)

TrashOptions == {"--separate-trash", "--ignore-trash", "--safe-mode"}

StartTrash ==
    /\ runs < MaxRuns
    /\ \E args \in SUBSET TrashOptions, a \in TrashArchives : Begin(args, a)

NextTrash ==
    \/ StartTrash
    \/ ProcessNote
    \/ DeletionSweep
    \/ DatabaseCleanup
    \/ WriteDatabase
    \/ Summary

SpecTrash == Init /\ [][NextTrash]_vars

\* -------------------------------------------------------------------------
\* Specification of repeated notes: an archive is any sequence of entries,
\* the same entry twice included, over several runs
\* -------------------------------------------------------------------------

\* Number of runs of the program in one behaviour of the repeated notes.
DupRuns == 3

\* Largest number of notes in an archive of the repeated notes.
DupNotes == 2

DupEntries ==
    [ id : {1, 2}, order : {0}, title : {<<"a">>}, text : {"x"}, flags : {0},
      createdMillis : {500}, lastModifiedMillis : {1000}, colorNum : {1} ]

DupArchives == UNION {[1..n -> DupEntries] : n \in 0..DupNotes}

StartDup ==
    /\ runs < DupRuns
    /\ \E a \in DupArchives : Begin({}, a)

NextDup ==
    \/ StartDup
    \/ ProcessNote
    \/ DeletionSweep
    \/ DatabaseCleanup
    \/ WriteDatabase
    \/ Summary

SpecDup == Init /\ [][NextDup]_vars

\* -------------------------------------------------------------------------
\* Specification of verbose runs: archives of no notes and archives whose
\* notes are all left out, with verbose logging and safe mode on or off
\* -------------------------------------------------------------------------

VerboseOptions == {"--verbose", "--safe-mode", "--ignore-trash"}

StartVerbose ==
    /\ runs < MaxRuns
    /\ \E args \in SUBSET VerboseOptions, a \in TrashArchives : Begin(args, a)

NextVerbose ==
    \/ StartVerbose
    \/ ProcessNote
    \/ DeletionSweep
    \/ DatabaseCleanup
    \/ WriteDatabase
    \/ Summary

SpecVerbose == Init /\ [][NextVerbose]_vars

\* -------------------------------------------------------------------------
\* Specification of interrupted runs: the ledger write is two steps, and a
\* run can be killed between any two steps
\* -------------------------------------------------------------------------

\* Number of runs of the program in one behaviour of the interrupted runs.
CrashRuns == 2

CrashEntries ==
    [ id : {1, 2}, order : {0}, title : {<<"a">>}, text : {"x"}, flags : {0},
      createdMillis : {500}, lastModifiedMillis : {1000}, colorNum : {1} ]

CrashArchives == Archives(CrashEntries, Cardinality(CrashEntries))

StartCrash ==
    /\ runs < CrashRuns
    /\ \E args \in SUBSET {"--verbose"}, a \in CrashArchives : Begin(args, a)

NextCrash ==
    \/ StartCrash
    \/ ProcessNote
    \/ DeletionSweep
    \/ DatabaseCleanup
    \/ OpenDatabase
    \/ FlushDatabase
    \/ Summary
    \/ Interrupt

SpecCrash == Init /\ [][NextCrash]_vars

\* -------------------------------------------------------------------------
\* Properties of the synchronisation runs
\* -------------------------------------------------------------------------

Completed == pc = "done"

SafeMode == "--safe-mode" \in argv

\* The run before this one completed.
AfterCompletedRun == runs >= 2 /\ last.done

\* Every run so far completed with safe mode off.
AllRunsUnsafe ==
    /\ Completed /\ ~SafeMode
    /\ runs >= 2 => (last.done /\ "--safe-mode" \notin last.argv)

Processed == 1..Len(current_notes)

\* C1: after completed runs with safe mode off, every processed note of the
\* last archive has, at the path allocated to it in that run, a file whose
\* content is that note's rendered content.
C1_OutputAgreesWithArchive ==
    AllRunsUnsafe =>
        \A i \in Processed :
            /\ steps[i].path \in DOMAIN files
            /\ files[steps[i].path].content = determine_content(current_notes[i])

\* C2: idempotence: a completed run followed by a run on the same archive
\* with the same options writes no note file in the second run and leaves
\* the ledger as the first run left it.
C2_Idempotence ==
    (Completed /\ AfterCompletedRun /\ last.argv = argv /\ last.notes = mxdb_notes)
        => /\ \A i \in Processed : ~steps[i].wrote
           /\ db_file.notes = last.db
           /\ counters.new_notes = 0 /\ counters.updated_notes = 0
           /\ counters.entry_deletions = 0

C2_Witness ==
    /\ Completed /\ AfterCompletedRun
    /\ last.argv = argv /\ last.notes = mxdb_notes
    /\ Len(current_notes) = 2
    /\ counters.unchanged_notes = 2

\* C3: a note that keeps its archive key between two runs keeps its identity,
\* whatever else of it was edited, so the second run finds its ledger entry.
C3_EditKeepsIdentity ==
    (Completed /\ AfterCompletedRun) =>
        \A i \in Processed : \A j \in 1..Len(last.steps) :
            steps[i].key = last.steps[j].key
                => (steps[i].hash = last.steps[j].hash /\ steps[i].in_db)

\* C4: a note whose lastModifiedMillis is larger than in the previous run is
\* written, with its current content, to its allocated path, and the ledger
\* then holds the new modification time under its identity.
C4_UpdateDetection ==
    (Completed /\ AfterCompletedRun) =>
        \A i \in Processed : \A j \in 1..Len(last.notes) :
            ( /\ last.notes[j].id = current_notes[i].id
              /\ last.notes[j].lastModifiedMillis < current_notes[i].lastModifiedMillis )
            => /\ steps[i].wrote
               /\ steps[i].path \in DOMAIN files
               /\ files[steps[i].path].content = current_notes[i].text
               /\ \E e \in 1..Len(db_file.notes) :
                    /\ db_file.notes[e].id = steps[i].hash
                    /\ db_file.notes[e].mtime
                         = Seconds(current_notes[i].lastModifiedMillis)

C4_Witness ==
    /\ Completed /\ AfterCompletedRun
    /\ \E i \in Processed : \E j \in 1..Len(last.notes) :
          /\ last.notes[j].id = current_notes[i].id
          /\ last.notes[j].lastModifiedMillis < current_notes[i].lastModifiedMillis
          /\ last.notes[j].title = current_notes[i].title
          /\ steps[i].wrote

\* C5: a note file that was written has the note's modification time
\* (lastModifiedMillis / 1000) as its file system modification time.
C5_FileMtimeIsNoteMtime ==
    \A i \in 1..Len(steps) :
        (steps[i].wrote /\ steps[i].path \in DOMAIN files)
            => files[steps[i].path].mtime
                 = Seconds(current_notes[i].lastModifiedMillis)

\* C6: a note that has a ledger entry is written if and only if the entry's
\* mtime is less than the note's mtime or no file is at its allocated path.
C6_WriteDecision ==
    \A i \in 1..Len(steps) :
        steps[i].in_db =>
            ( steps[i].wrote <=>
                ( TimeLess(steps[i].entry_mtime,
                           Seconds(current_notes[i].lastModifiedMillis))
                  \/ ~steps[i].existed ) )

\* Equal timestamps and no file at the allocated path: the note is rewritten.
C6_Witness ==
    \E i \in 1..Len(steps) :
        /\ steps[i].in_db
        /\ steps[i].entry_mtime = Seconds(current_notes[i].lastModifiedMillis)
        /\ ~steps[i].existed
        /\ steps[i].wrote
        /\ steps[i].path \in DOMAIN files

\* C7: after a completed run, in safe mode or not, the identities in the
\* ledger are exactly the identities of the notes processed in that run.
C7_LedgerPruned ==
    Completed =>
        /\ db_file.exists
        /\ {db_file.notes[e].id : e \in 1..Len(db_file.notes)}
             = {generate_hash(current_notes[i]) : i \in Processed}

\* Two stale entries next to each other were pruned, in safe mode.
C7_Witness ==
    /\ Completed /\ SafeMode
    /\ counters.entry_deletions = 2
    /\ Len(db_file.notes) = 1

\* C8: after a completed run with safe mode off, every *.md file under the
\* destination root is at a path allocated in that run (case-insensitively).
C8_OnlyAllocatedMdFiles ==
    (Completed /\ ~SafeMode) =>
        \A p \in DOMAIN files : IsMd(p) => InSeq(Lower(p), filepaths)

\* C9: in a run with safe mode on nothing is deleted: every file and folder
\* that was there when the run started is still there.
C9_SafeModeDeletesNothing ==
    (SafeMode /\ pc # "idle") =>
        /\ DOMAIN before.files \subseteq DOMAIN files
        /\ before.dirs \subseteq dirs
        /\ before.db.exists => db_file.exists
        /\ removed.files = {} /\ removed.dirs = {}
        /\ counters.file_deletions = 0 /\ counters.folder_deletions = 0

\* An orphan note file is still on disk after the sweep of a safe-mode run.
C9_Witness ==
    /\ SafeMode /\ Completed
    /\ \E p \in DOMAIN files :
          /\ p # LogPath
          /\ p \in DOMAIN before.files
          /\ ~InSeq(Lower(p), filepaths)

\* -------------------------------------------------------------------------
\* Properties of path allocation
\* -------------------------------------------------------------------------

SaveDir(i) == determine_save_dir(current_notes[i], options)

Stem(i) == determine_file_name(current_notes[i])

\* 'stem.md' for k = 0 and 'stem k.md' for k >= 1, in the note's directory.
Candidate(i, k) == FullPath(SaveDir(i), Stem(i), k)

\* The paths allocated before note i, lowercased.
Earlier(i) == {Lower(steps[j].path) : j \in 1..(i - 1)}

SameStem(i, j) ==
    /\ LowerSeq(SaveDir(i)) = LowerSeq(SaveDir(j))
    /\ LowerSeq(Stem(i)) = LowerSeq(Stem(j))

PairwiseDistinct ==
    \A i, j \in 1..Len(steps) :
        i # j => Lower(steps[i].path) # Lower(steps[j].path)

\* C10 as stated: the allocated paths are pairwise distinct ignoring case; of
\* the notes with the same directory and stem the first gets 'stem.md' and
\* each later one 'stem k.md' for the smallest free k >= 1.
C10_FirstOfStemUnsuffixed ==
    /\ PairwiseDistinct
    /\ \A i \in 1..Len(steps) :
          IF \A j \in 1..(i - 1) : ~SameStem(i, j)
          THEN steps[i].path = Candidate(i, 0)
          ELSE \E k \in 1..Len(steps) :
                  /\ steps[i].path = Candidate(i, k)
                  /\ Lower(Candidate(i, k)) \notin Earlier(i)
                  /\ \A m \in 1..(k - 1) : Lower(Candidate(i, m)) \in Earlier(i)

\* C10 amended: the allocated paths are pairwise distinct ignoring case, and
\* every note gets the first of 'stem.md', 'stem 1.md', 'stem 2.md', ... that
\* no earlier note of the run was allocated (ignoring case).
C10_FirstFreeCandidate ==
    /\ PairwiseDistinct
    /\ \A i \in 1..Len(steps) :
          \E k \in 0..Len(steps) :
              /\ steps[i].path = Candidate(i, k)
              /\ Lower(Candidate(i, k)) \notin Earlier(i)
              /\ \A m \in 0..(k - 1) : Lower(Candidate(i, m)) \in Earlier(i)

\* Three notes collide: one by the case of its title, and one, the first of
\* its stem, with the suffixed path of an earlier note.
C10_Witness ==
    /\ Completed
    /\ Len(steps) = 3
    /\ \E i \in 1..Len(steps) :
          /\ \A j \in 1..(i - 1) : ~SameStem(i, j)
          /\ steps[i].path = Candidate(i, 1)
    /\ \E i \in 1..Len(steps) :
          /\ Stem(i) # LowerSeq(Stem(i))
          /\ steps[i].path # Candidate(i, 0)

\* -------------------------------------------------------------------------
\* Properties of interrupted runs and of the ledger load
\* -------------------------------------------------------------------------

\* C11: when a run is interrupted, sync_db.json is either as it was before
\* the run or the complete new ledger, never an empty or partial document.
C11_LedgerOldOrNew ==
    pc = "interrupted" =>
        \/ db_file = before.db
        \/ (db_file.exists /\ db_file.whole /\ db_file.notes = sync_db)

\* The note files of the destination: every file but the log.
NoteFiles(fs) == {p \in DOMAIN fs : p # LogPath}

\* C19: with no sync_db.json the run starts from an empty ledger and goes on;
\* with a sync_db.json that cannot be parsed the run fails at the load: no
\* note file is written or deleted and sync_db.json is not overwritten.
C19_LedgerLoad ==
    /\ (pc # "idle" /\ ~before.db.exists) =>
          /\ pc # "load_failed"
          /\ (pc \in {"notes", "sweep"} /\ pos = 0) => sync_db = <<>>
    /\ (pc # "idle" /\ before.db.exists /\ ~before.db.whole) =>
          /\ pc = "load_failed"
          /\ db_file = before.db
          /\ NoteFiles(files) = NoteFiles(before.files)
          /\ \A p \in NoteFiles(files) : files[p] = before.files[p]
          /\ steps = <<>>

\* A run meets the truncated ledger of an interrupted run, with note files of
\* that run on disk; and a run after it went on from no ledger.
C19_Witness ==
    /\ pc = "load_failed"
    /\ before.db.exists /\ ~before.db.whole
    /\ NoteFiles(files) # {}
    /\ Len(current_notes) > 0

\* -------------------------------------------------------------------------
\* Properties of the command line checks
\* -------------------------------------------------------------------------

\* C12: a run stopped by a configuration error (too few arguments, no -i or
\* -o, input not found, no backup in the input folder) ends with a nonzero
\* exit status and has changed nothing on the file system.
C12_ConfigErrorExitsNonzero ==
    pc \in ConfigErrors =>
        /\ ExitStatus # 0
        /\ files = before.files /\ dirs = before.dirs /\ db_file = before.db

\* -------------------------------------------------------------------------
\* Properties of the options
\* -------------------------------------------------------------------------

\* The note at place i of the archive was processed in this run.
WasProcessed(i) == \E j \in 1..Len(steps) : steps[j].hash = generate_hash(mxdb_notes[i])

\* C13: a run given --skip-trash, --skip-archive or --skip-empty, as the help
\* text names them, writes no file and keeps no ledger entry for a trashed,
\* archived or empty note.
C13_HelpOptionsFilter ==
    Completed =>
        \A i \in 1..Len(mxdb_notes) :
            LET n == mxdb_notes[i] IN
            ( \/ is_trashed(n) /\ "--skip-trash" \in argv
              \/ is_archived(n) /\ "--skip-archive" \in argv
              \/ is_empty(n) /\ "--skip-empty" \in argv )
            => /\ ~WasProcessed(i)
               /\ FindEntry(db_file.notes, generate_hash(n)) = 0

\* The directory the claim gives a note, written from the command line.
RoutedDir(n) ==
    IF is_trashed(n) /\ "--separate-trash" \in argv /\ "--ignore-trash" \notin argv
      THEN << "Trash", determine_category(n) >>
    ELSE IF is_archived(n) /\ "--separate-archive" \in argv /\ "--ignore-archive" \notin argv
      THEN << "Archive", determine_category(n) >>
    ELSE << determine_category(n) >>

\* C14: the directory of a note is Trash/<category> exactly when it is
\* trashed, trash is separated and not ignored; else Archive/<category>
\* exactly when it is archived, archive is separated and not ignored; else
\* <category>. It is the save_dir of every note of the archive (computed
\* before the filtering) and the directory of every path allocated.
C14_CategoryRouting ==
    pc # "idle" =>
        /\ \A i \in 1..Len(mxdb_notes) :
              determine_save_dir(mxdb_notes[i], options) = RoutedDir(mxdb_notes[i])
        /\ \A j \in 1..Len(steps) :
              steps[j].path.dir = RoutedDir(current_notes[j])

\* A completed run over a note trashed and archived with both folders
\* separated (it goes to Trash), and an archived note in another category.
C14_Witness ==
    /\ Completed
    /\ {"--separate-trash", "--separate-archive"} \subseteq argv
    /\ Len(steps) = 2
    /\ is_trashed(current_notes[1]) /\ is_archived(current_notes[1])
    /\ steps[1].path.dir = << "Trash", "work" >>
    /\ steps[2].path.dir = << "Archive", "home" >>

\* C18: in the summary every note of the archive is counted once, as new,
\* updated, unchanged, or skipped as empty, trashed or archived; the total
\* reported is the number of notes of the archive.
C18_SummaryAccounting ==
    Completed =>
        /\ counters.total_notes = Len(mxdb_notes)
        /\ counters.new_notes + counters.updated_notes + counters.unchanged_notes
              = Len(current_notes)
        /\ counters.skipped_empty_notes + counters.skipped_trashed_notes
              + counters.skipped_archived_notes = Len(mxdb_notes) - Len(current_notes)

\* A completed run with all three options over an empty trashed archived
\* note, which matches all three tests, and a note that is kept.
C18_Witness ==
    /\ Completed
    /\ argv = IgnoreOptions
    /\ Len(mxdb_notes) = 2
    /\ is_empty(mxdb_notes[1]) /\ is_trashed(mxdb_notes[1]) /\ is_archived(mxdb_notes[1])
    /\ counters.skipped_empty_notes = 1 /\ counters.new_notes = 1

\* -------------------------------------------------------------------------
\* Properties of the sweep's folders and of notes left out
\* -------------------------------------------------------------------------

\* Folder d holds a file, a folder, or (the root) sync_db.json.
HasEntries(d) ==
    \/ \E p \in DOMAIN files : p.dir = d
    \/ \E x \in dirs : x # Root /\ Parent(x) = d
    \/ d = Root /\ db_file.exists

\* C15: at the end of a sweep with safe mode off, a folder from which an
\* orphan was deleted and which is still there holds an entry (a folder left
\* with none was removed), and every folder removed directly contained a
\* deleted orphan and holds nothing.
C15_EmptiedFolderRemoved ==
    (pc = "cleanup" /\ ~SafeMode) =>
        /\ \A f \in removed.files : f.dir \in dirs => HasEntries(f.dir)
        /\ \A d \in removed.dirs :
              /\ d \notin dirs
              /\ \E f \in removed.files : f.dir = d
              /\ ~HasEntries(d)

\* The sweep deleted the one note of Trash/work and removed that folder; it
\* deleted the log in the root, which holds other entries and stays.
C15_Witness ==
    /\ pc = "cleanup" /\ ~SafeMode
    /\ removed.dirs = {<< "Trash", "work" >>}
    /\ LogPath \in removed.files
    /\ Root \in dirs
    /\ \E p \in DOMAIN files : p.dir = << "work" >>

\* The note is left out by an option of this run.
LeftOut(n) ==
    \/ is_trashed(n) /\ "--ignore-trash" \in argv
    \/ is_archived(n) /\ "--ignore-archive" \in argv
    \/ is_empty(n) /\ "--ignore-empty-notes" \in argv

\* C17: a note left out by an ignore option is not processed (no path
\* allocated, nothing written) and has no ledger entry after the run; with
\* safe mode off, the file the run before wrote for it is gone, or is a file
\* this run wrote for the note now allocated that path.
C17_FilteredNotProcessed ==
    Completed =>
        \A i \in 1..Len(mxdb_notes) :
            LET n == mxdb_notes[i] IN
            LeftOut(n) =>
                /\ ~WasProcessed(i)
                /\ FindEntry(db_file.notes, generate_hash(n)) = 0
                /\ (AfterCompletedRun /\ ~SafeMode) =>
                      \A j \in 1..Len(last.steps) :
                          last.steps[j].hash = generate_hash(n) =>
                              \/ last.steps[j].path \notin DOMAIN files
                              \/ \E k \in 1..Len(steps) :
                                    /\ steps[k].path = last.steps[j].path
                                    /\ steps[k].wrote

\* The part that holds: a note left out is not processed (no path allocated,
\* nothing written) and has no ledger entry after the run.
C17_LeftOutOfLoopAndLedger ==
    Completed =>
        \A i \in 1..Len(mxdb_notes) :
            LeftOut(mxdb_notes[i]) =>
                /\ ~WasProcessed(i)
                /\ FindEntry(db_file.notes, generate_hash(mxdb_notes[i])) = 0

\* -------------------------------------------------------------------------
\* Properties of the ledger's entries
\* -------------------------------------------------------------------------

\* C16: after a completed run, the ledger entry of every processed note holds
\* the path allocated to that note in this run.
C16_LedgerPathIsAllocatedPath ==
    Completed =>
        \A i \in Processed :
            \A e \in 1..Len(db_file.notes) :
                db_file.notes[e].id = generate_hash(current_notes[i])
                    => db_file.notes[e].path = steps[i].path

\* No two entries of the ledger have the same id.
OneEntryPerId(db) ==
    \A e1, e2 \in 1..Len(db) : db[e1].id = db[e2].id => e1 = e2

\* C20: in runs that start from no ledger, the ledger in memory and the one
\* in sync_db.json never hold two entries of one identity.
C20_OneEntryPerIdentity ==
    /\ OneEntryPerId(sync_db)
    /\ OneEntryPerId(db_file.notes)

\* The third run over an archive that holds the same note twice, as did the
\* archive of the run before: both are found in the ledger's one entry.
C20_Witness ==
    /\ Completed /\ runs >= 3
    /\ Len(mxdb_notes) = 2 /\ mxdb_notes[1] = mxdb_notes[2]
    /\ last.done /\ last.notes = mxdb_notes
    /\ counters.unchanged_notes = 2
    /\ Len(db_file.notes) = 1

\* -------------------------------------------------------------------------
\* Properties of the completion of runs
\* -------------------------------------------------------------------------

\* The sweep of this run is over.
Swept == pc \in {"cleanup", "write", "summary", "done"}

\* The sweep removed neither sync_db.json nor a file at a path allocated in
\* this run.
SweepKeepsLedgerAndNotes ==
    /\ before.db.exists => db_file.exists
    /\ Swept => \A i \in 1..Len(steps) :
                    steps[i].path \notin removed.files /\ steps[i].path \in DOMAIN files

\* C21: no run ends in an uncaught exception or an early exit, and the sweep
\* removes neither the destination root, nor sync_db.json, nor a file at a
\* path allocated in the run.
C21_RunsComplete ==
    /\ pc \notin {"crashed", "exited", "load_failed"}
    /\ Root \notin removed.dirs
    /\ SweepKeepsLedgerAndNotes

====
